---- MODULE Spec2Model ----
(***************************************************************************)
(* Model of app.py: the persona table (ExpertPrompts), the credential      *)
(* lookup and the question/answer path of LLMService.ask_llm, and the       *)
(* module-level ask_llm wrapper.                                            *)
(*                                                                         *)
(* A Python str is a sequence of one-character strings.  A fixed literal   *)
(* of the source (a message, a persona instruction, a piece of the human   *)
(* template) is one opaque token: a sequence of length one holding an      *)
(* ASCII stand-in for the literal.  An Optional[str] is a record           *)
(* [isNone, s].                                                            *)
(***************************************************************************)
EXTENDS Integers, Sequences, FiniteSets, TLC

VARIABLES
    PROMPTS,      \* ExpertPrompts.PROMPTS, the class-level persona table
    secrets,      \* st.secrets as far as OPENAI_API_KEY is concerned
    environ,      \* os.environ as far as OPENAI_API_KEY is concerned
    llm_service,  \* the LLMService object main() keeps: [exists, api_key]
    double,       \* the text-generation service: "live" or a deterministic double
    last,         \* the latest invocation: operation, arguments, result, calls made
    ref           \* a remembered earlier invocation against a double

vars == <<PROMPTS, secrets, environ, llm_service, double, last, ref>>

----------------------------------------------------------------------------
(* Bounds *)

MaxLen == 2        \* longest question
MaxReplyLen == 1   \* longest generated text and longest failure description
MaxSelLen == 3     \* longest selector handed to get_prompt on its own

----------------------------------------------------------------------------
(* Strings *)

Strings(alphabet, n) == UNION {[1..k -> alphabet] : k \in 0..n}

None == [isNone |-> TRUE, s |-> <<>>]
Str(s) == [isNone |-> FALSE, s |-> s]

\* str.isspace for one character
IsSpace(c) == c \in {" ", "\t", "\n"}

RECURSIVE lstrip(_)
lstrip(s) == IF s # <<>> /\ IsSpace(Head(s)) THEN lstrip(Tail(s)) ELSE s

RECURSIVE rstrip(_)
rstrip(s) ==
    IF s # <<>> /\ IsSpace(s[Len(s)]) THEN rstrip(SubSeq(s, 1, Len(s) - 1)) ELSE s

\* str.strip()
strip(s) == rstrip(lstrip(s))

UpperChar(c) ==
    CASE c = "a" -> "A"
      [] c = "b" -> "B"
      [] c = "z" -> "Z"
      [] OTHER -> c

\* str.upper()
upper(s) == [i \in 1..Len(s) |-> UpperChar(s[i])]

\* needle in haystack, for Python strs
Contains(haystack, needle) ==
    \E i \in 1..(Len(haystack) - Len(needle) + 1) :
        SubSeq(haystack, i, i + Len(needle) - 1) = needle

\* truthiness of an Optional[str]: None and "" are falsy
Truthy(v) == ~v.isNone /\ v.s # <<>>

----------------------------------------------------------------------------
(* AppConfig *)

LLM_MODEL == "gpt-4o-mini"
LLM_MAX_RETRIES == 2

----------------------------------------------------------------------------
(* ExpertPrompts *)

PROMPT_A == <<"<instruction: management consultant>">>
PROMPT_B == <<"<instruction: data scientist>">>

PROMPTS_TABLE == (<<"A">> :> PROMPT_A) @@ (<<"B">> :> PROMPT_B)

\* dict.get(key, default)
DictGet(d, key, default) == IF key \in DOMAIN d THEN d[key] ELSE default

\* get_prompt without the upper-casing
get_prompt_no_upper(expert_choice) ==
    DictGet(PROMPTS, strip(expert_choice), PROMPTS[<<"A">>])

ExpertPrompts_get_prompt(expert_choice) ==
    LET choice == upper(strip(expert_choice))
    IN DictGet(PROMPTS, choice, PROMPTS[<<"A">>])

----------------------------------------------------------------------------
(* The ambient configuration and the text-generation service *)

SecretValues == {<<>>, <<"s">>}
EnvValues == {<<>>, <<" ">>, <<"e">>}

\* st.secrets: no secrets file at all (every access raises), a file without the
\* key, or a file that gives the key a value
SecretsStates ==
    {[file |-> FALSE, has |-> FALSE, val |-> <<>>],
     [file |-> TRUE, has |-> FALSE, val |-> <<>>]}
    \cup {[file |-> TRUE, has |-> TRUE, val |-> v] : v \in SecretValues}

EnvironStates ==
    {[has |-> FALSE, val |-> <<>>]} \cup {[has |-> TRUE, val |-> v] : v \in EnvValues}

\* what the service does with one request: generated text, or a failure with a
\* description
ReplyTexts == Strings({" ", "o"}, MaxReplyLen) \cup {<<" ", "o", " ">>}
FailureTexts == Strings({"t"}, MaxReplyLen)
AllReplies == [ok : {TRUE}, text : ReplyTexts] \cup [ok : {FALSE}, text : FailureTexts]

\* the question a request carries: the human content between head and tail
QuestionOf(messages) == SubSeq(messages[2].content, 2, Len(messages[2].content) - 1)

\* deterministic service doubles: a function of the request
Doubles == {"fixed_fail", "echo", "by_persona"}

DoubleReply(d, messages) ==
    CASE d = "fixed_fail" -> [ok |-> FALSE, text |-> <<"t">>]
      [] d = "echo" -> [ok |-> TRUE, text |-> QuestionOf(messages)]
      [] d = "by_persona" ->
            [ok |-> messages[1].content = PROMPT_A, text |-> messages[1].content]

Replies(messages) ==
    IF double = "live" THEN AllReplies ELSE {DoubleReply(double, messages)}

----------------------------------------------------------------------------
(* LLMService *)

EMPTY_INPUT_MSG == <<"<input text is empty, please enter a question>">>
NO_API_KEY_MSG == <<"<OpenAI API key is not set, set OPENAI_API_KEY>">>
ERROR_PREFIX == <<"<an error occurred: >">>

HUMAN_HEAD == <<"<answer the following as an expert. [question]>">>
HUMAN_TAIL == <<"<constraint: 300-600 characters, one ground and one caveat>">>
PLACEHOLDER == "{question}"

Return(text) == [kind |-> "return", text |-> text]
Raise == [kind |-> "raise", text |-> <<>>]
NoReply == [ok |-> FALSE, text |-> <<>>]

\* os.environ.get("OPENAI_API_KEY")
environ_get == IF environ.has THEN Str(environ.val) ELSE None

\* st.secrets.get("OPENAI_API_KEY", default): with no secrets file the access
\* raises; otherwise the store's value if it has the key, else the default
\* the lookup with the two sources in the other order
get_api_key_environ_first ==
    IF ~secrets.file
    THEN [raised |-> TRUE, value |-> None]
    ELSE [raised |-> FALSE,
          value |-> IF environ.has THEN Str(environ.val)
                    ELSE IF secrets.has THEN Str(secrets.val) ELSE None]

LLMService_get_api_key ==
    IF ~secrets.file
    THEN [raised |-> TRUE, value |-> None]
    ELSE [raised |-> FALSE,
          value |-> IF secrets.has THEN Str(secrets.val) ELSE environ_get]

LLMService_create_prompt(system_message) ==
    << [role |-> "system", template |-> system_message],
       [role |-> "human", template |-> HUMAN_HEAD \o <<PLACEHOLDER>> \o HUMAN_TAIL] >>

\* a template with the variable substituted
RECURSIVE Format(_, _)
Format(template, question) ==
    IF template = <<>>
    THEN <<>>
    ELSE (IF Head(template) = PLACEHOLDER THEN question ELSE <<Head(template)>>)
         \o Format(Tail(template), question)

\* ChatPromptTemplate applied to {"question": question}
FormatMessages(prompt, question) ==
    [i \in 1..Len(prompt) |->
        [role |-> prompt[i].role, content |-> Format(prompt[i].template, question)]]

\* LLMService._create_model and the request it sends
Request(messages) ==
    [model |-> LLM_MODEL, max_retries |-> LLM_MAX_RETRIES, messages |-> messages]

\* input validation that forgets the strip
IsEmptyInput_no_strip(user_text) == ~Truthy(user_text)

\* input validation: not user_text or not user_text.strip()
IsEmptyInput(user_text) == ~Truthy(user_text) \/ strip(user_text.s) = <<>>

\* API key validation by "is None"
IsMissingKey_is_none(api_key) == api_key.isNone

\* API key validation: not self.api_key
IsMissingKey(api_key) == ~Truthy(api_key)

\* the question handed to the chain as it came
InvokeQuestion_raw(user_text) == user_text.s

\* the value handed to the chain: {"question": user_text.strip()}
InvokeQuestion(user_text) == strip(user_text.s)

\* the generated text tidied before it is returned
OnSuccess_strip(result) == strip(result)

\* the previous answer kept and served again
OnSuccess_cached(result) ==
    IF last.op \in {"method", "wrapper"} /\ last.sent # <<>> /\ last.reply.ok
    THEN last.ret.text
    ELSE result

\* return result
OnSuccess(result) == result

\* a failure reported without its description
OnFailure_generic(e) == ERROR_PREFIX

\* the except branch
OnFailure(e) == ERROR_PREFIX \o e

\* a failed request sent once more by the component itself
ChainInvoke_resend(messages, reply) ==
    [sent |-> IF reply.ok THEN <<Request(messages)>>
              ELSE <<Request(messages), Request(messages)>>,
     reply |-> reply]

\* chain.invoke: the requests dispatched and what came back
ChainInvoke(messages, reply) == [sent |-> <<Request(messages)>>, reply |-> reply]

\* LLMService.ask_llm: the set of results it can end with, each
\* [ret, sent, reply]: what it returns, the requests it dispatched and what the
\* service answered
LLMService_ask_llm(api_key, user_text, expert_choice) ==
    IF IsEmptyInput(user_text)
    THEN {[ret |-> Return(EMPTY_INPUT_MSG), sent |-> <<>>, reply |-> NoReply]}
    ELSE IF IsMissingKey(api_key)
    THEN {[ret |-> Return(NO_API_KEY_MSG), sent |-> <<>>, reply |-> NoReply]}
    ELSE LET system_msg == ExpertPrompts_get_prompt(expert_choice)
             prompt == LLMService_create_prompt(system_msg)
             messages == FormatMessages(prompt, InvokeQuestion(user_text))
         IN {LET r == ChainInvoke(messages, reply)
             IN [ret |-> IF r.reply.ok
                         THEN Return(OnSuccess(r.reply.text))
                         ELSE Return(OnFailure(r.reply.text)),
                 sent |-> r.sent, reply |-> r.reply] : reply \in Replies(messages)}

\* the module-level ask_llm: LLMService() outside any try, then the method
ask_llm(user_text, expert_choice) ==
    LET k == LLMService_get_api_key
    IN IF k.raised
       THEN {[ret |-> Raise, sent |-> <<>>, reply |-> NoReply]}
       ELSE LLMService_ask_llm(k.value, user_text, expert_choice)

----------------------------------------------------------------------------
(* Inputs *)

Questions == {None} \cup {Str(s) : s \in Strings({" ", "x"}, MaxLen)}
Selectors == {<<"A">>, <<" ", "b">>, <<"z">>}
SelectorStrings == Strings({" ", "a", "A", "b", "B", "z"}, MaxSelLen)

NoCred == [resolved |-> FALSE, api_key |-> None]
Cred(k) == [resolved |-> TRUE, api_key |-> k]

NoLast ==
    [op |-> "none", user_text |-> None, expert_choice |-> <<>>, cred |-> NoCred,
     ret |-> Raise, sent |-> <<>>, reply |-> NoReply, after_ref |-> FALSE]

NoRef == [set |-> FALSE, user_text |-> None, expert_choice |-> <<>>, cred |-> NoCred,
          ret |-> Raise]

----------------------------------------------------------------------------
(* Actions *)

InitCommon ==
    /\ PROMPTS = PROMPTS_TABLE
    /\ llm_service = [exists |-> FALSE, api_key |-> None]
    /\ last = NoLast
    /\ ref = NoRef

Init ==
    /\ InitCommon
    /\ secrets \in SecretsStates
    /\ environ \in EnvironStates
    /\ double = "live"

\* a test against a double: no secrets file, no credential, or a credential
InitDouble ==
    /\ InitCommon
    /\ secrets \in {s \in SecretsStates : s.has => s.val # <<>>}
    /\ environ = [has |-> FALSE, val |-> <<>>]
    /\ double \in Doubles

InitPrompt ==
    /\ InitCommon
    /\ secrets = [file |-> TRUE, has |-> FALSE, val |-> <<>>]
    /\ environ = [has |-> FALSE, val |-> <<>>]
    /\ double = "live"

\* whether an invocation may become the remembered one
Remember == IF double = "live" \/ ref.set THEN {FALSE} ELSE BOOLEAN

\* an invocation is recorded; against a double it may become the remembered one
Record(op, user_text, expert_choice, cred, res, remember) ==
    /\ last' = [op |-> op, user_text |-> user_text, expert_choice |-> expert_choice,
                cred |-> cred, ret |-> res.ret, sent |-> res.sent, reply |-> res.reply,
                after_ref |-> ref.set]
    /\ ref' = IF remember
              THEN [set |-> TRUE, user_text |-> user_text,
                    expert_choice |-> expert_choice, cred |-> cred, ret |-> res.ret]
              ELSE ref

\* llm_service = LLMService() in main
Construct ==
    /\ ~llm_service.exists
    /\ LET k == LLMService_get_api_key
       IN /\ llm_service' = IF k.raised THEN llm_service
                            ELSE [exists |-> TRUE, api_key |-> k.value]
          /\ last' = [NoLast EXCEPT !.op = "init",
                                    !.cred = IF k.raised THEN NoCred ELSE Cred(k.value),
                                    !.ret = IF k.raised THEN Raise ELSE Return(<<>>),
                                    !.after_ref = ref.set]
    /\ UNCHANGED <<PROMPTS, secrets, environ, double, ref>>

\* llm_service.ask_llm(user_text, expert_choice)
MethodCall ==
    /\ llm_service.exists
    /\ \E user_text \in Questions, expert_choice \in Selectors, remember \in Remember :
        \E res \in LLMService_ask_llm(llm_service.api_key, user_text, expert_choice) :
            Record("method", user_text, expert_choice, Cred(llm_service.api_key),
                   res, remember)
    /\ UNCHANGED <<PROMPTS, secrets, environ, llm_service, double>>

\* ask_llm(user_text, expert_choice), the module-level wrapper
WrapperCall ==
    /\ \E user_text \in Questions, expert_choice \in Selectors, remember \in Remember :
        \E res \in ask_llm(user_text, expert_choice) :
            LET k == LLMService_get_api_key
            IN Record("wrapper", user_text, expert_choice,
                      IF k.raised THEN NoCred ELSE Cred(k.value), res, remember)
    /\ UNCHANGED <<PROMPTS, secrets, environ, llm_service, double>>

\* ExpertPrompts.get_prompt(expert_choice) on its own
GetPrompt ==
    /\ \E expert_choice \in SelectorStrings :
        last' = [NoLast EXCEPT !.op = "get_prompt",
                               !.expert_choice = expert_choice,
                               !.ret = Return(ExpertPrompts_get_prompt(expert_choice)),
                               !.after_ref = ref.set]
    /\ UNCHANGED <<PROMPTS, secrets, environ, llm_service, double, ref>>

Next == Construct \/ MethodCall \/ WrapperCall

NextPrompt == GetPrompt

Spec == Init /\ [][Next]_vars

SpecDouble == InitDouble /\ [][Next]_vars

SpecPrompt == InitPrompt /\ [][NextPrompt]_vars

----------------------------------------------------------------------------
(* Properties *)

\* the latest invocation is a call of ask_llm, method or wrapper
IsAsk == last.op \in {"method", "wrapper"}

\* ... and it got as far as the method body, with a credential looked up
Entered == IsAsk /\ last.cred.resolved

\* outbound calls the latest invocation made
Calls == Len(last.sent)

\* absent, empty or made only of whitespace
Blank(q) == q.isNone \/ \A i \in 1..Len(q.s) : IsSpace(q.s[i])

\* absent or the empty string
NotConfigured(k) == k.isNone \/ Len(k.s) = 0

\* s is the letter c or its lower case, with whitespace around it
NormalizesTo(s, c, lower) ==
    \E i \in 1..Len(s) :
        /\ s[i] \in {c, lower}
        /\ \A j \in 1..Len(s) : j # i => IsSpace(s[j])

\* the instruction the selector resolves to
Resolved(s) ==
    IF NormalizesTo(s, "A", "a") THEN PROMPT_A
    ELSE IF NormalizesTo(s, "B", "b") THEN PROMPT_B
    ELSE PROMPT_A

\* t is s without its leading and trailing whitespace (s not blank)
IsTrimOf(t, s) ==
    \E i \in 1..Len(s), j \in 1..Len(s) :
        /\ i <= j
        /\ t = SubSeq(s, i, j)
        /\ ~IsSpace(s[i]) /\ ~IsSpace(s[j])
        /\ \A k \in 1..Len(s) : (k < i \/ k > j) => IsSpace(s[k])

\* C1: with any credential, a question that is absent, empty or only
\* whitespace gets the empty-input message and no call is made; the
\* empty-input message wins over the missing-credential message.
C1_EmptyInput ==
    (Entered /\ Blank(last.user_text))
        => (last.ret = Return(EMPTY_INPUT_MSG) /\ Calls = 0)

C1_Witness ==
    /\ Entered
    /\ last.user_text = Str(<<" ", " ">>)
    /\ last.cred.api_key.isNone
    /\ last.ret = Return(EMPTY_INPUT_MSG)
    /\ Calls = 0

\* C2: a non-blank question with the credential absent or empty gets the
\* missing-credential message, which is not the empty-input message, and no
\* call is made.
C2_MissingCredential ==
    (Entered /\ ~Blank(last.user_text) /\ NotConfigured(last.cred.api_key))
        => /\ last.ret = Return(NO_API_KEY_MSG)
           /\ last.ret # Return(EMPTY_INPUT_MSG)
           /\ Calls = 0

C2_Witness ==
    /\ Entered
    /\ ~Blank(last.user_text)
    /\ last.cred.api_key = Str(<<>>)
    /\ last.ret = Return(NO_API_KEY_MSG)
    /\ Calls = 0

\* C3: get_prompt returns for every selector string: the instruction of "A" or
\* "B" when the selector is that letter in either case with whitespace around
\* it, the instruction of "A" for every other string, and always an entry of
\* the table.
C3_GetPromptTotal ==
    last.op = "get_prompt"
        => /\ last.ret = Return(Resolved(last.expert_choice))
           /\ \E k \in DOMAIN PROMPTS : last.ret.text = PROMPTS[k]

C3_Witness ==
    /\ last.op = "get_prompt"
    /\ last.expert_choice = <<" ", "b", " ">>
    /\ last.ret = Return(PROMPT_B)

\* C4: every invocation of ask_llm, method or wrapper, ends by returning a
\* text; nothing is raised to the caller.
C4_NothingEscapes == IsAsk => last.ret.kind = "return"

\* C5: an invocation makes exactly one outbound call when the question is not
\* blank and the credential is not empty, and none otherwise; never more than
\* one.
C5_OneCall ==
    /\ IsAsk => Calls <= 1
    /\ Entered =>
        Calls = IF ~Blank(last.user_text) /\ ~NotConfigured(last.cred.api_key)
                THEN 1 ELSE 0

C5_Witness ==
    /\ Entered
    /\ ~Blank(last.user_text) /\ ~NotConfigured(last.cred.api_key)
    /\ ~last.reply.ok
    /\ Calls = 1

\* C6: when the service call fails with description d, the text returned is
\* the error prefix followed by d; it contains both, and it is neither the
\* empty-input nor the missing-credential message.
C6_FailureText ==
    (IsAsk /\ Calls >= 1 /\ ~last.reply.ok)
        => /\ last.ret = Return(ERROR_PREFIX \o last.reply.text)
           /\ Contains(last.ret.text, ERROR_PREFIX)
           /\ Contains(last.ret.text, last.reply.text)
           /\ SubSeq(last.ret.text, 1, Len(ERROR_PREFIX)) = ERROR_PREFIX
           /\ last.ret.text \notin {EMPTY_INPUT_MSG, NO_API_KEY_MSG}

C6_Witness ==
    /\ IsAsk /\ Calls >= 1 /\ ~last.reply.ok
    /\ last.reply.text = <<"t">>
    /\ last.ret = Return(ERROR_PREFIX \o <<"t">>)

\* C7: when the service call succeeds with text t, exactly t is returned, be
\* it empty or with whitespace at its ends.
C7_Verbatim ==
    (IsAsk /\ Calls >= 1 /\ last.reply.ok) => last.ret = Return(last.reply.text)

C7_Witness ==
    /\ IsAsk /\ Calls >= 1 /\ last.reply.ok
    /\ last.reply.text = <<" ", "o", " ">>
    /\ last.ret = Return(<<" ", "o", " ">>)

C9_NoStateRetained ==
    /\ PROMPTS = PROMPTS_TABLE
    /\ (/\ ref.set /\ IsAsk
        /\ last.user_text = ref.user_text
        /\ last.expert_choice = ref.expert_choice
        /\ last.cred = ref.cred)
            => last.ret = ref.ret

C9_Witness ==
    /\ ref.set /\ last.after_ref /\ IsAsk
    /\ last.user_text = ref.user_text
    /\ last.expert_choice = ref.expert_choice
    /\ last.cred = ref.cred
    /\ Calls = 1 /\ last.reply.ok
    /\ last.ret = ref.ret

\* C10 as stated: the request holds a system message with the resolved
\* instruction and a human message with the question embedded exactly as it
\* was given.
C10_QuestionVerbatim ==
    (IsAsk /\ Calls >= 1)
        => LET m == last.sent[1].messages
           IN /\ Len(m) = 2
              /\ m[1] = [role |-> "system", content |-> Resolved(last.expert_choice)]
              /\ m[2] = [role |-> "human",
                         content |-> HUMAN_HEAD \o last.user_text.s \o HUMAN_TAIL]

\* C10 amended: the request holds a system message with the resolved
\* instruction and a human message with the question embedded without its
\* leading and trailing whitespace.
C10_QuestionTrimmed ==
    (IsAsk /\ Calls >= 1)
        => LET m == last.sent[1].messages
           IN /\ Len(m) = 2
              /\ m[1] = [role |-> "system", content |-> Resolved(last.expert_choice)]
              /\ m[2].role = "human"
              /\ \E t \in Strings({" ", "x"}, MaxLen) :
                    /\ IsTrimOf(t, last.user_text.s)
                    /\ m[2].content = HUMAN_HEAD \o t \o HUMAN_TAIL

C10_Witness ==
    /\ IsAsk /\ Calls = 1
    /\ last.user_text = Str(<<" ", "x">>)
    /\ last.expert_choice = <<" ", "b">>
    /\ last.sent[1].messages =
        << [role |-> "system", content |-> PROMPT_B],
           [role |-> "human", content |-> HUMAN_HEAD \o <<"x">> \o HUMAN_TAIL] >>

====
